---------------------------- MODULE Spec2Model ----------------------------
(***************************************************************************)
(* Model of src/scrapers/base-isracard-amex.ts: the login handshake of     *)
(* IsracardAmexBaseScraper and the multi-month transaction acquisition     *)
(* pipeline (fetchAccounts, fetchTransactions, fetchAllTransactions).      *)
(*                                                                         *)
(* Spec is the run of login() and fetchData(); SpecWindow, SpecConvert and *)
(* SpecMemo apply fetchData's window of months, convertTransactions and    *)
(* getInstallmentsInfo to arguments drawn from bounded sets.               *)
(*                                                                         *)
(* An optional JavaScript value (null / undefined / a missing field) is    *)
(* the empty sequence; a present value x is the one-element sequence <<x>>.*)
(***************************************************************************)
EXTENDS Integers, Sequences, FiniteSets, TLC

VARIABLES
    pc,             \* position of the scrape run: "login", "fetching", "done"
    loginState,     \* state of the login handshake
    credentials,    \* the argument of login(), while login() runs
    validateResult, \* login(): const validateResult, once received
    loginResult,    \* login(): const loginResult, once received
    loginOutcome,   \* what login() returned, once it returned
    progress,       \* the notifications given to emitProgress, in order
    inflight,       \* requests awaiting their response
    sent,           \* the requests issued so far
    options,        \* this.options as handed to fetchAllTransactions
    monthPc,        \* per month: position of its fetchTransactions call
    accounts,       \* per month: fetchTransactions' const accounts
    dashResult,     \* per month: fetchAccounts' const dataResult, by its shape
    txnResult,      \* per month: fetchTransactions' const dataResult, by its shape
    results,        \* per month: what fetchTransactions returned
    completed,      \* months in the order their fetchTransactions settled
    scrapeResult,   \* what the run hands to its caller
    call,           \* a function applied on its own: its name and arguments
    ret             \* what that function returned, once it returned

vars == <<pc, loginState, credentials, validateResult, loginResult, loginOutcome,
          progress, inflight, sent, options, monthPc, accounts, dashResult,
          txnResult, results, completed, scrapeResult, call, ret>>

loginVars == <<loginState, credentials, validateResult, loginResult, loginOutcome,
               progress>>

fetchVars == <<monthPc, accounts, dashResult, txnResult, results, completed>>

callVars == <<call, ret>>

runVars == <<pc, loginState, credentials, validateResult, loginResult, loginOutcome,
             progress, inflight, sent, options, monthPc, accounts, dashResult,
             txnResult, results, completed, scrapeResult>>

-----------------------------------------------------------------------------
(* Optional values *)

None == <<>>

Some(x) == <<x>>

IsSome(o) == o # <<>>

Val(o) == o[1]

-----------------------------------------------------------------------------
(* Bounds *)

\* number of calendar months getAllMonthMoments yields
NumMonths == 2

Months == 1..NumMonths

\* how many years before the year of now the startDate option reaches back
LookbackYears == 2

\* the longest memo handed to getInstallmentsInfo, in symbols
MaxMemoLen == 4

-----------------------------------------------------------------------------
(* Constants of the program *)

COUNTRY_CODE == "212"

ID_TYPE == "1"

DATE_FORMAT == "DD/MM/YYYY"

\* the members of ScrapeProgressTypes that login() emits
LoggingIn == "LOGGING_IN"

LoginSuccess == "LOGIN_SUCCESS"

LoginFailed == "LOGIN_FAILED"

ChangePassword == "CHANGE_PASSWORD"

\* the members of ErrorTypes that login() returns
ErrInvalidPassword == "INVALID_PASSWORD"

ErrChangePassword == "CHANGE_PASSWORD"

ErrGeneric == "GENERIC"

\* institution parameters of the constructor
companyCode == "11"

-----------------------------------------------------------------------------
(* The transport's possible answers to the two login requests *)

StatusCodes == {"0", "1", "3", "4"}

Passwords == {"pw1", "pw2"}

Credentials == [id : {"id1"}, card6Digits : {"123456"}, password : Passwords]

ValidateIdDataBeans == [returnCode : StatusCodes, userName : {"srvUser"}]

ValidateResponses ==
    {None} \cup
    { Some([Header |-> h, ValidateIdDataBean |-> b]) :
        h \in {None} \cup { Some([Status |-> s]) : s \in {"0", "1"} },
        b \in {None} \cup { Some(v) : v \in ValidateIdDataBeans } }

LogonResponses == {None} \cup { Some([status |-> s]) : s \in StatusCodes }

-----------------------------------------------------------------------------
(* Requests *)

ValidateRequest(cred) ==
    [reqName |-> "ValidateIdData", month |-> 0,
     body |-> Some([id |-> cred.id, cardSuffix |-> cred.card6Digits,
                    countryCode |-> COUNTRY_CODE, idType |-> ID_TYPE,
                    checkLevel |-> "1", companyCode |-> companyCode])]

LogonRequest(cred, userName) ==
    [reqName |-> "performLogonI", month |-> 0,
     body |-> Some([KodMishtamesh |-> userName, MisparZihuy |-> cred.id,
                    Sisma |-> cred.password, cardSuffix |-> cred.card6Digits,
                    countryCode |-> COUNTRY_CODE, idType |-> ID_TYPE])]

\* getAccountsUrl
AccountsRequest(m) == [reqName |-> "DashboardMonth", month |-> m, body |-> None]

\* getTransactionsUrl
TransactionsRequest(m) ==
    [reqName |-> "CardsTransactionsList", month |-> m, body |-> None]

ReqKey(r) == <<r.reqName, r.month>>

LoginReqNames == {"ValidateIdData", "performLogonI"}

MonthReqNames == {"DashboardMonth", "CardsTransactionsList"}

-----------------------------------------------------------------------------
(* login(): the decisions *)

\* as ValidateMalformed, without the test of Header.Status
ValidateMalformedMutNoStatus(v) ==
    \/ ~IsSome(v)
    \/ ~IsSome(Val(v).Header)
    \/ ~IsSome(Val(v).ValidateIdDataBean)

\* !validateResult || !validateResult.Header ||
\* validateResult.Header.Status !== '1' || !validateResult.ValidateIdDataBean
ValidateMalformed(v) ==
    \/ ~IsSome(v)
    \/ ~IsSome(Val(v).Header)
    \/ Val(Val(v).Header).Status # "1"
    \/ ~IsSome(Val(v).ValidateIdDataBean)

validateReturnCode(v) == Val(Val(v).ValidateIdDataBean).returnCode

\* as ProceedsToLogon, for every return code but "4"
ProceedsToLogonMutNotFour(code) == code # "4"

\* validateReturnCode === '1', line 267
ProceedsToLogon(code) == code = "1"

LoginResultOf(success, errorType) == [success |-> success, errorType |-> errorType]

\* as LogonTerminal, with status "3" taken for a success
LogonTerminalMutLoose(r) ==
    IF IsSome(r) /\ Val(r).status \in {"1", "3"}
    THEN [state |-> "Success", emit |-> LoginSuccess,
          result |-> LoginResultOf(TRUE, None)]
    ELSE [state |-> "InvalidCredentials", emit |-> LoginFailed,
          result |-> LoginResultOf(FALSE, Some(ErrInvalidPassword))]

\* as LogonTerminal, with the password-change result flagged a success
LogonTerminalMutSuccessFlag(r) ==
    IF IsSome(r) /\ Val(r).status = "1"
    THEN [state |-> "Success", emit |-> LoginSuccess,
          result |-> LoginResultOf(TRUE, None)]
    ELSE IF IsSome(r) /\ Val(r).status = "3"
    THEN [state |-> "ChangePasswordRequired", emit |-> ChangePassword,
          result |-> LoginResultOf(TRUE, Some(ErrChangePassword))]
    ELSE [state |-> "InvalidCredentials", emit |-> LoginFailed,
          result |-> LoginResultOf(FALSE, Some(ErrInvalidPassword))]

\* the terminal state, the notification and the returned value that follow
\* the logon response, lines 280-297
LogonTerminal(r) ==
    IF IsSome(r) /\ Val(r).status = "1"
    THEN [state |-> "Success", emit |-> LoginSuccess,
          result |-> LoginResultOf(TRUE, None)]
    ELSE IF IsSome(r) /\ Val(r).status = "3"
    THEN [state |-> "ChangePasswordRequired", emit |-> ChangePassword,
          result |-> LoginResultOf(FALSE, Some(ErrChangePassword))]
    ELSE [state |-> "InvalidCredentials", emit |-> LoginFailed,
          result |-> LoginResultOf(FALSE, Some(ErrInvalidPassword))]

\* as ValidateTerminal, without the branch of return code "4"
ValidateTerminalMutNoChange(code) ==
    [state |-> "InvalidCredentials", emit |-> LoginFailed,
     result |-> LoginResultOf(FALSE, Some(ErrInvalidPassword))]

\* the terminal state that follows a well-formed validation response whose
\* return code is not "1", lines 300-312
ValidateTerminal(code) ==
    IF code = "4"
    THEN [state |-> "ChangePasswordRequired", emit |-> ChangePassword,
          result |-> LoginResultOf(FALSE, Some(ErrChangePassword))]
    ELSE [state |-> "InvalidCredentials", emit |-> LoginFailed,
          result |-> LoginResultOf(FALSE, Some(ErrInvalidPassword))]

LoginTerminalStates ==
    {"Success", "ChangePasswordRequired", "InvalidCredentials", "UnknownError"}

TerminalNotifications == {LoginSuccess, LoginFailed, ChangePassword}

-----------------------------------------------------------------------------
(* Text and dates.  A string of decimal digits is the sequence of its      *)
(* digits; a date string in DATE_FORMAT is the triple of the numbers it    *)
(* spells, <<DD, MM, YYYY>>.                                               *)

RECURSIVE ParseInt(_)
\* parseInt(digits, 10)
ParseInt(ds) ==
    IF Len(ds) = 0 THEN 0
    ELSE 10 * ParseInt(SubSeq(ds, 1, Len(ds) - 1)) + ds[Len(ds)]

IsLeap(y) == (y % 4 = 0 /\ y % 100 # 0) \/ y % 400 = 0

DaysInMonth(m, y) ==
    IF m = 2 THEN (IF IsLeap(y) THEN 29 ELSE 28)
    ELSE IF m \in {4, 6, 9, 11} THEN 30 ELSE 31

\* the instant of a calendar day, as an ordinal that grows with time
Instant(d, m, y) == (y * 12 + (m - 1)) * 31 + d

\* moment(str, DATE_FORMAT).toISOString(): null for an absent string or a
\* date that does not exist
ParseDate(str) ==
    IF ~IsSome(str) THEN None
    ELSE LET d == Val(str)[1]
             m == Val(str)[2]
             y == Val(str)[3]
         IN  IF m \in 1..12 /\ d \in 1..DaysInMonth(m, y)
             THEN Some(Instant(d, m, y))
             ELSE None

\* the calendar month of the m-th entry of allMonths
MonthOf(m) == [month |-> ((m - 1) % 12) + 1, year |-> 2024 + ((m - 1) \div 12)]

-----------------------------------------------------------------------------
(* JavaScript objects keep their own keys in this order: the keys that     *)
(* spell an array index ascending, then the other keys as inserted.  An    *)
(* object is the sequence of its [key, value] entries as inserted.         *)

IsArrayIndex(k) ==
    /\ Len(k) > 0
    /\ Len(k) = 1 \/ k[1] # 0
    /\ Len(k) <= 9

HasKey(obj, k) == \E i \in 1..Len(obj) : obj[i].key = k

Get(obj, k) == obj[CHOOSE i \in 1..Len(obj) : obj[i].key = k].value

Put(obj, k, v) ==
    IF HasKey(obj, k)
    THEN [i \in 1..Len(obj) |->
            IF obj[i].key = k THEN [key |-> k, value |-> v] ELSE obj[i]]
    ELSE Append(obj, [key |-> k, value |-> v])

RECURSIVE SortedIndexKeys(_)
SortedIndexKeys(ks) ==
    IF ks = {} THEN <<>>
    ELSE LET least == CHOOSE k \in ks : \A o \in ks : ParseInt(k) <= ParseInt(o)
         IN  <<least>> \o SortedIndexKeys(ks \ {least})

\* Object.keys(obj)
ObjectKeys(obj) ==
    SortedIndexKeys({obj[i].key : i \in {j \in 1..Len(obj) : IsArrayIndex(obj[j].key)}})
    \o SelectSeq([i \in 1..Len(obj) |-> obj[i].key], LAMBDA k : ~IsArrayIndex(k))

-----------------------------------------------------------------------------
(* convertTransactions and what it calls *)

\* the installment marker of line 24, a Hebrew word, as one symbol
INSTALLMENTS_KEYWORD == "tashlum"

SHEKEL_CURRENCY_KEYWORD == "shekel"

ALT_SHEKEL_CURRENCY == "NIS"

SHEKEL_CURRENCY == "ILS"

Normal == "normal"

Installments == "installments"

Completed == "completed"

SentinelVoucher == <<0, 0, 0, 0, 0, 0, 0, 0, 0>>

Digits == {"0", "1", "2", "3", "4", "5", "6", "7", "8", "9"}

DigitValue(c) ==
    CASE c = "0" -> 0 [] c = "1" -> 1 [] c = "2" -> 2 [] c = "3" -> 3
      [] c = "4" -> 4 [] c = "5" -> 5 [] c = "6" -> 6 [] c = "7" -> 7
      [] c = "8" -> 8 [] c = "9" -> 9

convertCurrency(currencyStr) ==
    IF currencyStr = SHEKEL_CURRENCY_KEYWORD \/ currencyStr = ALT_SHEKEL_CURRENCY
    THEN SHEKEL_CURRENCY
    ELSE currencyStr

RECURSIVE DigitRuns(_, _)
\* memo.match(/\d+/g): the maximal runs of digits of the memo, left to right;
\* cur is the run being read.  A memo is the sequence of its symbols, the
\* installment keyword being one symbol.
DigitRuns(memo, cur) ==
    IF Len(memo) = 0 THEN (IF Len(cur) = 0 THEN <<>> ELSE <<cur>>)
    ELSE IF Head(memo) \in Digits
         THEN DigitRuns(Tail(memo), Append(cur, DigitValue(Head(memo))))
         ELSE (IF Len(cur) = 0 THEN <<>> ELSE <<cur>>) \o DigitRuns(Tail(memo), <<>>)

Includes(memo, symbol) == \E i \in 1..Len(memo) : memo[i] = symbol

\* as getInstallmentsInfo, without the test for the keyword
getInstallmentsInfoMutNoKeyword(txn) ==
    IF ~IsSome(txn.moreInfo) \/ Len(Val(txn.moreInfo)) = 0
    THEN None
    ELSE LET matches == DigitRuns(Val(txn.moreInfo), <<>>)
         IN  IF Len(matches) < 2 THEN None
             ELSE Some([number |-> ParseInt(matches[1]),
                        total |-> ParseInt(matches[2])])

getInstallmentsInfo(txn) ==
    IF ~IsSome(txn.moreInfo) \/ Len(Val(txn.moreInfo)) = 0
       \/ ~Includes(Val(txn.moreInfo), INSTALLMENTS_KEYWORD)
    THEN None
    ELSE LET matches == DigitRuns(Val(txn.moreInfo), <<>>)
         IN  IF Len(matches) < 2 THEN None
             ELSE Some([number |-> ParseInt(matches[1]),
                        total |-> ParseInt(matches[2])])

getTransactionType(txn) ==
    IF IsSome(getInstallmentsInfo(txn)) THEN Installments ELSE Normal

\* a JavaScript boolean or number: dealSumOutbound is declared boolean and
\* used as a number, and the JSON of the response may carry either
JsBool(b) == [t |-> "boolean", n |-> IF b THEN 1 ELSE 0]

JsNum(x) == [t |-> "number", n |-> x]

\* ToBoolean: false and 0 are falsy
Truthy(x) == x.n # 0

\* ToNumber, as unary minus applies it: true is 1, false is 0
ToNumber(x) == x.n

\* as IsChargeable, without the test of dealSumType
IsChargeableMutNoSumType(txn) ==
    /\ txn.voucherNumberRatz # SentinelVoucher
    /\ txn.voucherNumberRatzOutbound # SentinelVoucher

\* the filter of convertTransactions
IsChargeable(txn) ==
    /\ txn.dealSumType # "1"
    /\ txn.voucherNumberRatz # SentinelVoucher
    /\ txn.voucherNumberRatzOutbound # SentinelVoucher

\* as ConvertOne, the charged amount not negated
ConvertOneMutChargedSign(txn, processedDate) ==
    LET isOutbound == Truthy(txn.dealSumOutbound)
        txnDateStr == IF isOutbound THEN txn.fullPurchaseDateOutbound
                      ELSE txn.fullPurchaseDate
    IN  [type |-> getTransactionType(txn),
         identifier |-> ParseInt(IF isOutbound THEN txn.voucherNumberRatzOutbound
                                 ELSE txn.voucherNumberRatz),
         date |-> ParseDate(txnDateStr),
         processedDate |-> processedDate,
         originalAmount |-> IF isOutbound THEN -ToNumber(txn.dealSumOutbound)
                            ELSE -txn.dealSum,
         originalCurrency |-> convertCurrency(txn.currencyId),
         chargedAmount |-> IF isOutbound THEN txn.paymentSumOutbound
                           ELSE txn.paymentSum,
         description |-> IF isOutbound THEN txn.fullSupplierNameOutbound
                         ELSE txn.fullSupplierNameHeb,
         memo |-> IF IsSome(txn.moreInfo) THEN Val(txn.moreInfo) ELSE <<>>,
         installments |-> getInstallmentsInfo(txn),
         status |-> Completed]

\* as ConvertOne, the original amount always from dealSum
ConvertOneMutDomesticSum(txn, processedDate) ==
    LET isOutbound == Truthy(txn.dealSumOutbound)
        txnDateStr == IF isOutbound THEN txn.fullPurchaseDateOutbound
                      ELSE txn.fullPurchaseDate
    IN  [type |-> getTransactionType(txn),
         identifier |-> ParseInt(IF isOutbound THEN txn.voucherNumberRatzOutbound
                                 ELSE txn.voucherNumberRatz),
         date |-> ParseDate(txnDateStr),
         processedDate |-> processedDate,
         originalAmount |-> IF isOutbound THEN -txn.dealSum
                            ELSE -txn.dealSum,
         originalCurrency |-> convertCurrency(txn.currencyId),
         chargedAmount |-> IF isOutbound THEN -txn.paymentSumOutbound
                           ELSE -txn.paymentSum,
         description |-> IF isOutbound THEN txn.fullSupplierNameOutbound
                         ELSE txn.fullSupplierNameHeb,
         memo |-> IF IsSome(txn.moreInfo) THEN Val(txn.moreInfo) ELSE <<>>,
         installments |-> getInstallmentsInfo(txn),
         status |-> Completed]

\* the map of convertTransactions
ConvertOne(txn, processedDate) ==
    LET isOutbound == Truthy(txn.dealSumOutbound)
        txnDateStr == IF isOutbound THEN txn.fullPurchaseDateOutbound
                      ELSE txn.fullPurchaseDate
    IN  [type |-> getTransactionType(txn),
         identifier |-> ParseInt(IF isOutbound THEN txn.voucherNumberRatzOutbound
                                 ELSE txn.voucherNumberRatz),
         date |-> ParseDate(txnDateStr),
         processedDate |-> processedDate,
         originalAmount |-> IF isOutbound THEN -ToNumber(txn.dealSumOutbound)
                            ELSE -txn.dealSum,
         originalCurrency |-> convertCurrency(txn.currencyId),
         chargedAmount |-> IF isOutbound THEN -txn.paymentSumOutbound
                           ELSE -txn.paymentSum,
         description |-> IF isOutbound THEN txn.fullSupplierNameOutbound
                         ELSE txn.fullSupplierNameHeb,
         memo |-> IF IsSome(txn.moreInfo) THEN Val(txn.moreInfo) ELSE <<>>,
         installments |-> getInstallmentsInfo(txn),
         status |-> Completed]

convertTransactions(txns, processedDate) ==
    LET filteredTxns == SelectSeq(txns, IsChargeable)
    IN  [i \in 1..Len(filteredTxns) |-> ConvertOne(filteredTxns[i], processedDate)]

-----------------------------------------------------------------------------
(* helpers/transactions: fixInstallments and filterOldTransactions, after  *)
(* sections 4.5 and 4.6 of the specification                               *)

IsInstallment(t) == t.type = Installments

SameGroup(a, b) == a.identifier = b.identifier /\ a.description = b.description

\* a before b in time; a date that did not parse is after every date
DateLeq(a, b) == ~IsSome(b.date) \/ (IsSome(a.date) /\ Val(a.date) <= Val(b.date))

RECURSIVE SumOver(_, _, _)
\* the sum of field f over the transactions of txns at the positions of idx
SumOver(txns, idx, f) ==
    IF idx = {} THEN 0
    ELSE LET i == CHOOSE j \in idx : TRUE
         IN  txns[i][f] + SumOver(txns, idx \ {i}, f)

\* the positions of the installment legs of the purchase that txns[i] is a leg of
LegsOf(txns, i) ==
    {j \in 1..Len(txns) : IsInstallment(txns[j]) /\ SameGroup(txns[j], txns[i])}

\* the position of the leg that represents the purchase: the first leg with
\* index 1, else the first of the earliest-dated legs
Representative(txns, legs) ==
    LET firsts == {j \in legs : IsSome(txns[j].installments)
                                /\ Val(txns[j].installments).number = 1}
        early  == {j \in legs : \A k \in legs : DateLeq(txns[j], txns[k])}
        pick(S) == CHOOSE j \in S : \A k \in S : j <= k
    IN  IF firsts # {} THEN pick(firsts)
        ELSE IF early # {} THEN pick(early) ELSE pick(legs)

fixInstallments(txns) ==
    LET keep == {i \in 1..Len(txns) :
                    ~IsInstallment(txns[i])
                    \/ Representative(txns, LegsOf(txns, i)) = i}
        collapse(i) ==
            IF ~IsInstallment(txns[i]) THEN txns[i]
            ELSE [txns[i] EXCEPT
                    !.originalAmount = SumOver(txns, LegsOf(txns, i), "originalAmount"),
                    !.chargedAmount = SumOver(txns, LegsOf(txns, i), "chargedAmount"),
                    !.installments = None]
        all == [i \in 1..Len(txns) |-> [pos |-> i, txn |-> collapse(i)]]
        kept == SelectSeq(all, LAMBDA e : e.pos \in keep)
    IN  [i \in 1..Len(kept) |-> kept[i].txn]

\* months between two instants' ordinals
MonthsAhead(n) == 31 * n

filterOldTransactions(txns, startMoment, combineInstallments) ==
    LET inWindow(t) == ~IsSome(t.date) \/ Val(t.date) >= startMoment
        ongoing(t) ==
            /\ combineInstallments
            /\ IsInstallment(t)
            /\ IsSome(t.installments)
            /\ IsSome(t.date)
            /\ Val(t.date) + MonthsAhead(Val(t.installments).total - 1) >= startMoment
    IN  SelectSeq(txns, LAMBDA t : inWindow(t) \/ ongoing(t))

-----------------------------------------------------------------------------
(* fetchAccounts *)

\* _.get(dataResult, 'Header.Status')
HeaderStatus(dataResult) ==
    IF IsSome(dataResult) /\ IsSome(Val(dataResult).Header)
    THEN Some(Val(Val(dataResult).Header).Status)
    ELSE None

AccountOf(cardCharge) ==
    [index |-> ParseInt(cardCharge.cardIndex),
     accountNumber |-> cardCharge.cardNumber,
     processedDate |-> ParseDate(Some(cardCharge.billingDate))]

\* what fetchAccounts returns for the response dataResult: the accounts, or
\* null
fetchAccounts(dataResult) ==
    IF /\ IsSome(dataResult)
       /\ HeaderStatus(dataResult) = Some("1")
       /\ IsSome(Val(dataResult).DashboardMonthBean)
       /\ IsSome(Val(Val(dataResult).DashboardMonthBean).cardsCharges)
    THEN LET cardsCharges == Val(Val(Val(dataResult).DashboardMonthBean).cardsCharges)
         IN  Some([i \in 1..Len(cardsCharges) |-> AccountOf(cardsCharges[i])])
    ELSE None

-----------------------------------------------------------------------------
(* fetchTransactions *)

IndexKey(i) == <<"Index", i>>

\* _.get(dataResult, `CardsTransactionsListBean.Index${i}.CurrentCardTransactions`)
TxnGroupsOf(dataResult, i) ==
    LET bean == Val(Val(dataResult).CardsTransactionsListBean)
    IN  IF HasKey(bean, IndexKey(i))
        THEN Get(bean, IndexKey(i)).CurrentCardTransactions
        ELSE None

RECURSIVE GroupsTxns(_, _)
\* the body of txnGroups.forEach: allTxns after the groups
GroupsTxns(txnGroups, processedDate) ==
    IF Len(txnGroups) = 0 THEN <<>>
    ELSE LET g == Head(txnGroups)
         IN  (IF IsSome(g.txnIsrael)
              THEN convertTransactions(Val(g.txnIsrael), processedDate) ELSE <<>>)
             \o (IF IsSome(g.txnAbroad)
                 THEN convertTransactions(Val(g.txnAbroad), processedDate) ELSE <<>>)
             \o GroupsTxns(Tail(txnGroups), processedDate)

\* as AccountMonthTxns, without the call of filterOldTransactions
AccountMonthTxnsMutNoFilter(txnGroups, account, opts, startMoment) ==
    LET allTxns == GroupsTxns(txnGroups, account.processedDate)
    IN  IF ~opts.combineInstallments THEN fixInstallments(allTxns) ELSE allTxns

\* the transactions of one account of one month, lines 169-184
AccountMonthTxns(txnGroups, account, opts, startMoment) ==
    LET allTxns == GroupsTxns(txnGroups, account.processedDate)
        fixed == IF ~opts.combineInstallments THEN fixInstallments(allTxns)
                 ELSE allTxns
    IN  filterOldTransactions(fixed, startMoment, opts.combineInstallments)

RECURSIVE AccountTxns(_, _, _, _, _)
\* the body of accounts.forEach: accountTxns after the accounts accs, begun
\* from acc
AccountTxns(dataResult, accs, opts, startMoment, acc) ==
    IF Len(accs) = 0 THEN acc
    ELSE LET account == Head(accs)
             txnGroups == TxnGroupsOf(dataResult, account.index)
             next == IF IsSome(txnGroups)
                     THEN Put(acc, account.accountNumber,
                              [accountNumber |-> account.accountNumber,
                               index |-> account.index,
                               txns |-> AccountMonthTxns(Val(txnGroups), account,
                                                         opts, startMoment)])
                     ELSE acc
         IN  AccountTxns(dataResult, Tail(accs), opts, startMoment, next)

\* as TxnListOk, without the test of Header.Status
TxnListOkMutNoStatus(dataResult) ==
    /\ IsSome(dataResult)
    /\ IsSome(Val(dataResult).CardsTransactionsListBean)

\* the transactions-list response passes the test of line 164
TxnListOk(dataResult) ==
    /\ HeaderStatus(dataResult) = Some("1")
    /\ IsSome(Val(dataResult).CardsTransactionsListBean)

ResultArray == [kind |-> "array", entries |-> <<>>]

ResultObject(entries) == [kind |-> "object", entries |-> entries]

ResultThrew == [kind |-> "threw", entries |-> <<>>]

\* what fetchTransactions gives, lines 164-196, once both responses are in:
\* the object accountTxns, the empty array, or the TypeError of calling
\* forEach on null
fetchTransactions(accs, dataResult, opts, startMoment) ==
    IF TxnListOk(dataResult)
    THEN IF IsSome(accs)
         THEN ResultObject(AccountTxns(dataResult, Val(accs), opts, startMoment, <<>>))
         ELSE ResultThrew
    ELSE ResultArray

-----------------------------------------------------------------------------
(* fetchAllTransactions: the merge of lines 205-229 *)

RECURSIVE MergeResultMutPrepend(_, _, _)
\* as MergeResult, the month's transactions put before the account's
MergeResultMutPrepend(combinedTxns, result, keys) ==
    IF Len(keys) = 0 THEN combinedTxns
    ELSE LET accountNumber == Head(keys)
             txnsForAccount == IF HasKey(combinedTxns, accountNumber)
                               THEN Get(combinedTxns, accountNumber) ELSE <<>>
             toBeAddedTxns == Get(result.entries, accountNumber).txns
         IN  MergeResultMutPrepend(Put(combinedTxns, accountNumber,
                                       toBeAddedTxns \o txnsForAccount),
                                   result, Tail(keys))

RECURSIVE MergeResult(_, _, _)
\* the inner forEach over Object.keys(result)
MergeResult(combinedTxns, result, keys) ==
    IF Len(keys) = 0 THEN combinedTxns
    ELSE LET accountNumber == Head(keys)
             txnsForAccount == IF HasKey(combinedTxns, accountNumber)
                               THEN Get(combinedTxns, accountNumber) ELSE <<>>
             toBeAddedTxns == Get(result.entries, accountNumber).txns
         IN  MergeResult(Put(combinedTxns, accountNumber,
                             txnsForAccount \o toBeAddedTxns),
                         result, Tail(keys))

RECURSIVE MergeAll(_, _, _)
\* results.forEach, over the months of order
MergeAll(combinedTxns, res, order) ==
    IF Len(order) = 0 THEN combinedTxns
    ELSE MergeAll(MergeResult(combinedTxns, res[Head(order)],
                              ObjectKeys(res[Head(order)].entries)),
                  res, Tail(order))

\* as MergeOrder, in the order in which the months settled
MergeOrderMutCompletion(done) == done

\* the order in which results.forEach visits the months: that of allMonths
MergeOrder(done) == [i \in 1..NumMonths |-> i]

\* the value fetchAllTransactions returns
fetchAllTransactionsResult(res, done) ==
    LET combinedTxns == MergeAll(<<>>, res, MergeOrder(done))
        keys == ObjectKeys(combinedTxns)
    IN  [success |-> TRUE,
         errorType |-> None,
         accounts |-> [i \in 1..Len(keys) |->
                          [accountNumber |-> keys[i],
                           txns |-> Get(combinedTxns, keys[i])]]]

-----------------------------------------------------------------------------
(* The transport's possible answers to the two month requests *)

CardIndexes == {0, 1}

\* the card number of the card with index i; the second is no array index
CardNumber(i) == IF i = 0 THEN <<2, 2, 2, 2>> ELSE <<0, 1, 1, 1>>

CardCharge(m, i) ==
    [cardIndex |-> <<i>>, cardNumber |-> CardNumber(i),
     billingDate |-> <<10, MonthOf(m).month, MonthOf(m).year>>]

HeaderOk == Some([Status |-> "1"])

HeaderFailed == Some([Status |-> "0"])

\* the shapes of the answers to the dashboard-month request
DashboardShapes ==
    {"absent", "failedHeader", "noBean", "noCardsCharges", "oneCard", "twoCards"}

\* the dashboard-month response of month m of the given shape
DashboardResponse(m, shape) ==
    CASE shape = "absent" -> None
      [] shape = "failedHeader" ->
            Some([Header |-> HeaderFailed,
                  DashboardMonthBean |->
                      Some([cardsCharges |-> Some(<<CardCharge(m, 0)>>)])])
      [] shape = "noBean" -> Some([Header |-> HeaderOk, DashboardMonthBean |-> None])
      [] shape = "noCardsCharges" ->
            Some([Header |-> HeaderOk,
                  DashboardMonthBean |-> Some([cardsCharges |-> None])])
      [] shape = "oneCard" ->
            Some([Header |-> HeaderOk,
                  DashboardMonthBean |->
                      Some([cardsCharges |-> Some(<<CardCharge(m, 0)>>)])])
      [] shape = "twoCards" ->
            Some([Header |-> HeaderOk,
                  DashboardMonthBean |->
                      Some([cardsCharges |->
                               Some(<<CardCharge(m, 0), CardCharge(m, 1)>>)])])

\* a record of the wire shape ScrapedTransaction
RawRecord(sumType, voucher, voucherOut, info, outbound, currency, sum, date, dateOut, supplier, supplierOut, payment, paymentOut) ==
    [dealSumType |-> sumType, voucherNumberRatzOutbound |-> voucherOut,
     voucherNumberRatz |-> voucher, moreInfo |-> info, dealSumOutbound |-> outbound,
     currencyId |-> currency, dealSum |-> sum, fullPurchaseDate |-> date,
     fullPurchaseDateOutbound |-> dateOut, fullSupplierNameHeb |-> supplier,
     fullSupplierNameOutbound |-> supplierOut, paymentSum |-> payment,
     paymentSumOutbound |-> paymentOut]

DigitSymbol(n) ==
    CASE n = 0 -> "0" [] n = 1 -> "1" [] n = 2 -> "2" [] n = 3 -> "3"
      [] n = 4 -> "4" [] n = 5 -> "5" [] n = 6 -> "6" [] n = 7 -> "7"
      [] n = 8 -> "8" [] n = 9 -> "9"

\* a domestic purchase of month m on card i
RawDomestic(m, i) ==
    RawRecord("0", <<1, 0, 0, 0, 0, 0, 0, m % 10, i>>, <<>>, None, JsBool(FALSE),
              SHEKEL_CURRENCY_KEYWORD, 100 + m,
              Some(<<5, MonthOf(m).month, MonthOf(m).year>>), None,
              "shop", "", 100 + m, 0)

\* leg m of a purchase in 12 installments made on card i on 8 January
RawInstallment(m, i) ==
    RawRecord("0", <<2, 0, 0, 0, 0, 0, 0, 0, i>>, <<>>,
              Some(<<INSTALLMENTS_KEYWORD, " ", DigitSymbol(m % 10), " ", "m", "1", "2">>),
              JsBool(FALSE), SHEKEL_CURRENCY_KEYWORD, 240,
              Some(<<8, 1, 2024>>), None, "store", "", 20, 0)

\* a purchase abroad of month m on card i
RawOutbound(m, i) ==
    RawRecord("0", <<>>, <<3, 0, 0, 0, 0, 0, 0, m % 10, i>>, None, JsBool(TRUE),
              "USD", 0, None, Some(<<7, MonthOf(m).month, MonthOf(m).year>>),
              "", "shopAbroad", 0, 50 + m)

\* an incomplete record
RawPlaceholder ==
    RawRecord("0", SentinelVoucher, SentinelVoucher, None, JsBool(FALSE),
              SHEKEL_CURRENCY_KEYWORD, 0, None, None, "", "", 0, 0)

\* the transaction groups of card i in month m: the second card has no
\* purchases abroad
TxnGroups(m, i) ==
    IF i = 0
    THEN << [txnIsrael |-> Some(<<RawDomestic(m, i), RawPlaceholder, RawInstallment(m, i)>>),
             txnAbroad |-> Some(<<RawOutbound(m, i)>>)] >>
    ELSE << [txnIsrael |-> Some(<<RawDomestic(m, i)>>), txnAbroad |-> None] >>

\* the bean with an entry for each card index of idx
Bean(m, idx) ==
    LET entry(i) == [key |-> IndexKey(i),
                     value |-> [CurrentCardTransactions |-> Some(TxnGroups(m, i))]]
    IN  (IF 0 \in idx THEN <<entry(0)>> ELSE <<>>)
        \o (IF 1 \in idx THEN <<entry(1)>> ELSE <<>>)

\* the shapes of the answers to the transactions-list request; a well-formed
\* success has an entry Index<i> for each card index i of cards
TransactionsShapes ==
    [kind : {"absent", "failedHeader", "noBean"}, cards : {{}}]
    \cup [kind : {"success"}, cards : SUBSET CardIndexes]

\* the transactions-list response of month m of the given shape
TransactionsResponse(m, shape) ==
    CASE shape.kind = "absent" -> None
      [] shape.kind = "failedHeader" ->
            Some([Header |-> HeaderFailed,
                  CardsTransactionsListBean |-> Some(Bean(m, CardIndexes))])
      [] shape.kind = "noBean" ->
            Some([Header |-> HeaderOk, CardsTransactionsListBean |-> None])
      [] shape.kind = "success" ->
            Some([Header |-> HeaderOk,
                  CardsTransactionsListBean |-> Some(Bean(m, shape.cards))])

\* the start of the window, as fetchData hands it to fetchAllTransactions
StartMoment == Instant(6, 1, 2024)

-----------------------------------------------------------------------------
(* The run: scrape() of the base scraper calls login() and, when login()   *)
(* returned success, fetchData(); what either throws becomes a generic     *)
(* error.                                                                  *)

GenericError == [success |-> FALSE, errorType |-> Some(ErrGeneric), accounts |-> <<>>]

\* the result of the run when login() did not succeed
ScrapeResultOfLogin(state, outcome) ==
    IF state = "UnknownError" THEN GenericError
    ELSE [success |-> Val(outcome).success, errorType |-> Val(outcome).errorType,
          accounts |-> <<>>]

\* the run goes on to fetchData()
ScrapeContinues(state, outcome) == IsSome(outcome) /\ Val(outcome).success

\* the run is configured with the default of combineInstallments
CombineInstallmentsChoices == {FALSE}

\* the run has not started
RunNotStarted ==
    /\ pc = "login"
    /\ loginState = "Start"
    /\ credentials = None
    /\ validateResult = None
    /\ loginResult = None
    /\ loginOutcome = None
    /\ progress = <<>>
    /\ inflight = {}
    /\ sent = {}
    /\ options \in [combineInstallments : CombineInstallmentsChoices]
    /\ monthPc = [m \in Months |-> "idle"]
    /\ accounts = [m \in Months |-> None]
    /\ dashResult = [m \in Months |-> None]
    /\ txnResult = [m \in Months |-> None]
    /\ results = [m \in Months |-> ResultArray]
    /\ completed = <<>>
    /\ scrapeResult = None

Init ==
    /\ RunNotStarted
    /\ call = None
    /\ ret = None

\* login(), line 248: the login page is navigated to
LoginNavigate ==
    /\ pc = "login"
    /\ loginState = "Start"
    /\ \E cred \in Credentials : credentials' = Some(cred)
    /\ loginState' = "Navigated"
    /\ UNCHANGED <<pc, validateResult, loginResult, loginOutcome, progress, inflight,
                   sent, options, scrapeResult>>
    /\ UNCHANGED fetchVars
    /\ UNCHANGED callVars

\* login(), lines 250-261: the validation request is posted
LoginPostValidate ==
    /\ loginState = "Navigated"
    /\ progress' = Append(progress, LoggingIn)
    /\ inflight' = inflight \cup {ValidateRequest(Val(credentials))}
    /\ sent' = sent \cup {ReqKey(ValidateRequest(Val(credentials)))}
    /\ loginState' = "Validating"
    /\ UNCHANGED <<pc, credentials, validateResult, loginResult, loginOutcome, options,
                   scrapeResult>>
    /\ UNCHANGED fetchVars
    /\ UNCHANGED callVars

\* login(), lines 261-312: the validation response arrives
LoginRecvValidate ==
    /\ loginState = "Validating"
    /\ \E resp \in ValidateResponses :
        /\ validateResult' = resp
        /\ IF ValidateMalformed(resp)
           THEN /\ loginState' = "UnknownError"
                /\ inflight' = {}
                /\ credentials' = None
                /\ UNCHANGED <<progress, sent, loginOutcome>>
           ELSE IF ProceedsToLogon(validateReturnCode(resp))
           THEN LET request == LogonRequest(Val(credentials),
                                            Val(Val(resp).ValidateIdDataBean).userName)
                IN  /\ loginState' = "LoggingIn"
                    /\ inflight' = {request}
                    /\ sent' = sent \cup {ReqKey(request)}
                    /\ UNCHANGED <<progress, credentials, loginOutcome>>
           ELSE LET t == ValidateTerminal(validateReturnCode(resp))
                IN  /\ loginState' = t.state
                    /\ progress' = Append(progress, t.emit)
                    /\ loginOutcome' = Some(t.result)
                    /\ inflight' = {}
                    /\ credentials' = None
                    /\ UNCHANGED sent
    /\ UNCHANGED <<pc, loginResult, options, scrapeResult>>
    /\ UNCHANGED fetchVars
    /\ UNCHANGED callVars

\* login(), lines 279-297: the logon response arrives
LoginRecvLogon ==
    /\ loginState = "LoggingIn"
    /\ \E resp \in LogonResponses :
        LET t == LogonTerminal(resp)
        IN  /\ loginResult' = resp
            /\ loginState' = t.state
            /\ progress' = Append(progress, t.emit)
            /\ loginOutcome' = Some(t.result)
    /\ inflight' = {}
    /\ credentials' = None
    /\ UNCHANGED <<pc, validateResult, sent, options, scrapeResult>>
    /\ UNCHANGED fetchVars
    /\ UNCHANGED callVars

\* the run ends with the failure of login()
ScrapeLoginFailed ==
    /\ pc = "login"
    /\ loginState \in LoginTerminalStates
    /\ ~ScrapeContinues(loginState, loginOutcome)
    /\ pc' = "done"
    /\ scrapeResult' = Some(ScrapeResultOfLogin(loginState, loginOutcome))
    /\ UNCHANGED <<inflight, sent, options>>
    /\ UNCHANGED loginVars
    /\ UNCHANGED fetchVars
    /\ UNCHANGED callVars

\* fetchData() and fetchAllTransactions, lines 315-203: every month's
\* fetchTransactions is called and runs up to the GET of fetchAccounts
FetchData ==
    /\ pc = "login"
    /\ loginState \in LoginTerminalStates
    /\ ScrapeContinues(loginState, loginOutcome)
    /\ pc' = "fetching"
    /\ monthPc' = [m \in Months |-> "accounts"]
    /\ inflight' = inflight \cup {AccountsRequest(m) : m \in Months}
    /\ sent' = sent \cup {ReqKey(AccountsRequest(m)) : m \in Months}
    /\ UNCHANGED <<options, scrapeResult, accounts, dashResult, txnResult, results,
                   completed>>
    /\ UNCHANGED loginVars
    /\ UNCHANGED callVars

\* fetchAccounts, lines 76-89, and fetchTransactions, lines 161-163: the
\* dashboard-month response of month m arrives
RecvAccounts(m) ==
    /\ monthPc[m] = "accounts"
    /\ \E shape \in DashboardShapes :
        /\ dashResult' = [dashResult EXCEPT ![m] = Some(shape)]
        /\ accounts' = [accounts EXCEPT ![m] = fetchAccounts(DashboardResponse(m, shape))]
    /\ monthPc' = [monthPc EXCEPT ![m] = "transactions"]
    /\ inflight' = (inflight \ {AccountsRequest(m)}) \cup {TransactionsRequest(m)}
    /\ sent' = sent \cup {ReqKey(TransactionsRequest(m))}
    /\ UNCHANGED <<pc, options, scrapeResult, txnResult, results, completed>>
    /\ UNCHANGED loginVars
    /\ UNCHANGED callVars

\* fetchTransactions, lines 163-196: the transactions-list response of month
\* m arrives.  Promise.all settles in the same turn: it rejects with the
\* first month that throws and resolves with the last month that returns,
\* and fetchAllTransactions, lines 205-229, runs on.
RecvTransactions(m) ==
    /\ monthPc[m] = "transactions"
    /\ \E shape \in TransactionsShapes :
        LET result == fetchTransactions(accounts[m], TransactionsResponse(m, shape),
                                        options, StartMoment)
            res == [results EXCEPT ![m] = result]
            done == Append(completed, m)
            threw == result.kind = "threw"
            last == \A o \in Months \ {m} : monthPc[o] = "returned"
        IN  /\ txnResult' = [txnResult EXCEPT ![m] = Some(shape)]
            /\ results' = res
            /\ completed' = done
            /\ monthPc' = [monthPc EXCEPT ![m] = IF threw THEN "threw" ELSE "returned"]
            /\ IF pc = "fetching" /\ threw
               THEN /\ pc' = "done"
                    /\ scrapeResult' = Some(GenericError)
               ELSE IF pc = "fetching" /\ last
               THEN /\ pc' = "done"
                    /\ scrapeResult' = Some(fetchAllTransactionsResult(res, done))
               ELSE UNCHANGED <<pc, scrapeResult>>
    /\ inflight' = inflight \ {TransactionsRequest(m)}
    /\ UNCHANGED <<sent, options, accounts, dashResult>>
    /\ UNCHANGED loginVars
    /\ UNCHANGED callVars

Next ==
    \/ LoginNavigate
    \/ LoginPostValidate
    \/ LoginRecvValidate
    \/ LoginRecvLogon
    \/ ScrapeLoginFailed
    \/ FetchData
    \/ \E m \in Months : RecvAccounts(m)
    \/ \E m \in Months : RecvTransactions(m)

Spec == Init /\ [][Next]_vars

-----------------------------------------------------------------------------
(* Vocabulary of the properties *)

\* the validation response has arrived
ValidationReceived == loginState \notin {"Start", "Navigated", "Validating"}

\* the validation response has arrived and is well-formed: a response with
\* Header.Status "1" and a ValidateIdDataBean
ValidationWellFormed ==
    /\ ValidationReceived
    /\ IsSome(validateResult)
    /\ IsSome(Val(validateResult).Header)
    /\ Val(Val(validateResult).Header).Status = "1"
    /\ IsSome(Val(validateResult).ValidateIdDataBean)

ReturnCode == Val(Val(validateResult).ValidateIdDataBean).returnCode

LogonPosted == <<"performLogonI", 0>> \in sent

\* the logon response has arrived
LogonReceived == LogonPosted /\ loginState # "LoggingIn"

LoginTerminated == loginState \in LoginTerminalStates

ReturnedChangePassword ==
    loginOutcome = Some([success |-> FALSE, errorType |-> Some(ErrChangePassword)])

ReturnedInvalidPassword ==
    loginOutcome = Some([success |-> FALSE, errorType |-> Some(ErrInvalidPassword)])

ReturnedSuccess == loginOutcome = Some([success |-> TRUE, errorType |-> None])

MonthRequestSent == \E k \in sent : k[1] \in MonthReqNames

MonthRequestInFlight == \E r \in inflight : r.reqName \in MonthReqNames

LoginRequestInFlight == \E r \in inflight : r.reqName \in LoginReqNames

\* the terminal notifications emitted so far, in order
TerminalEmitted == SelectSeq(progress, LAMBDA n : n \in TerminalNotifications)

\* the notification that belongs to a terminal state
NotificationOf(state) ==
    CASE state = "Success" -> LoginSuccess
      [] state = "ChangePasswordRequired" -> ChangePassword
      [] state = "InvalidCredentials" -> LoginFailed
      [] state = "UnknownError" -> LoginFailed

-----------------------------------------------------------------------------
(* Properties of the login handshake *)

\* C5: no month request (dashboard-month or transactions-list) is issued
\* before login has reached a terminal state, month requests are issued only
\* after the terminal state Success, and no login request is awaiting its
\* response while a month request has been issued.
C5_MonthFetchesAfterLoginSuccess ==
    /\ (MonthRequestSent \/ MonthRequestInFlight \/ pc = "fetching")
          => (loginState = "Success" /\ ReturnedSuccess)
    /\ ~(LoginRequestInFlight /\ (MonthRequestSent \/ MonthRequestInFlight))

\* C5 witness: after a successful login the month requests are in flight
C5_Witness ==
    /\ loginState = "Success"
    /\ LogonPosted
    /\ pc = "fetching"
    /\ \A m \in Months : AccountsRequest(m) \in inflight

\* C6: whenever the well-formed validation response carries return code "4"
\* the outcome is ChangePasswordRequired (success false, error type
\* ChangePassword) and the logon request is never posted.
C6_ReturnCodeFourChangePassword ==
    (ValidationWellFormed /\ ReturnCode = "4")
        => /\ loginState = "ChangePasswordRequired"
           /\ ReturnedChangePassword
           /\ ~LogonPosted
           /\ loginResult = None

\* C6 witness: login ended on return code "4"
C6_Witness ==
    /\ ValidationWellFormed
    /\ ReturnCode = "4"
    /\ loginState = "ChangePasswordRequired"
    /\ pc = "done"

\* C7: the logon request is posted if and only if the validation response is
\* well-formed with return code "1"; a well-formed validation response with
\* any return code other than "1" and "4" ends in InvalidCredentials with no
\* logon request.
C7_LogonIffReturnCodeOne ==
    /\ LogonPosted <=> (ValidationWellFormed /\ ReturnCode = "1")
    /\ (ValidationWellFormed /\ ReturnCode \notin {"1", "4"})
          => /\ loginState = "InvalidCredentials"
             /\ ReturnedInvalidPassword
             /\ ~LogonPosted

\* C7 witness: the logon request is in flight after return code "1"
C7_Witness ==
    /\ ValidationWellFormed
    /\ ReturnCode = "1"
    /\ LogonPosted
    /\ loginState = "LoggingIn"

\* C8: once the logon request has been posted the outcome is decided by the
\* logon response alone: status "1" gives Success, status "3" gives
\* ChangePasswordRequired, any other status or a missing response gives
\* InvalidCredentials.
C8_OutcomeFromLogonResponse ==
    LogonReceived =>
        IF IsSome(loginResult) /\ Val(loginResult).status = "1"
        THEN loginState = "Success" /\ ReturnedSuccess
        ELSE IF IsSome(loginResult) /\ Val(loginResult).status = "3"
        THEN loginState = "ChangePasswordRequired" /\ ReturnedChangePassword
        ELSE loginState = "InvalidCredentials" /\ ReturnedInvalidPassword

\* C8 witness: the logon response carried status "3"
C8_Witness ==
    /\ LogonReceived
    /\ loginResult = Some([status |-> "3"])
    /\ loginState = "ChangePasswordRequired"

\* C9 as claimed: login ends in UnknownError whenever a response is absent or
\* malformed, at the validation step and at the logon step (missing logon
\* response).
C9_UnknownErrorAtEveryStep ==
    /\ (ValidationReceived /\ ~ValidationWellFormed) => loginState = "UnknownError"
    /\ (LogonReceived /\ ~IsSome(loginResult)) => loginState = "UnknownError"

\* C9 as amended: login ends in UnknownError, with nothing returned and no
\* logon request, whenever the validation response is absent or malformed
\* (missing response, missing Header, Header.Status not "1", missing
\* payload); a missing logon response ends in InvalidCredentials.
C9_UnknownErrorAtValidation ==
    /\ (ValidationReceived /\ ~ValidationWellFormed)
          => (loginState = "UnknownError" /\ loginOutcome = None /\ ~LogonPosted)
    /\ (LogonReceived /\ ~IsSome(loginResult))
          => (loginState = "InvalidCredentials" /\ ReturnedInvalidPassword)
    /\ loginState = "UnknownError" => ~ValidationWellFormed

\* C9 witness: the validation response had Header.Status "0" and a payload
C9_Witness ==
    /\ ValidationReceived
    /\ IsSome(validateResult)
    /\ Val(validateResult).Header = Some([Status |-> "0"])
    /\ IsSome(Val(validateResult).ValidateIdDataBean)
    /\ loginState = "UnknownError"

\* C10: when login has reached a terminal state, the notification of that
\* terminal state has been emitted exactly once and no other terminal
\* notification has been emitted; before the terminal state none has; this
\* holds for every terminal state, UnknownError included.
C10_TerminalNotificationOnce ==
    IF LoginTerminated
    THEN TerminalEmitted = <<NotificationOf(loginState)>>
    ELSE TerminalEmitted = <<>>

-----------------------------------------------------------------------------
(* Vocabulary of the properties of the month fetches *)

\* fetchTransactions of month m has settled
MonthSettled(m) == monthPc[m] \in {"returned", "threw"}

\* the dashboard-month answers that are absent, failed or lack the bean or
\* its cardsCharges
BadDashboardShapes == {"absent", "failedHeader", "noBean", "noCardsCharges"}

\* the transactions-list answers that are absent, failed or lack the bean
BadTransactionsKinds == {"absent", "failedHeader", "noBean"}

DashboardIsBad(m) == IsSome(dashResult[m]) /\ Val(dashResult[m]) \in BadDashboardShapes

TransactionsIsBad(m) ==
    IsSome(txnResult[m]) /\ Val(txnResult[m]).kind \in BadTransactionsKinds

TransactionsSucceeded(m) == IsSome(txnResult[m]) /\ Val(txnResult[m]).kind = "success"

MonthIsBad(m) == DashboardIsBad(m) \/ TransactionsIsBad(m)

\* the month-local list of an account in the result of month m
MonthLocal(m, accountNumber) ==
    IF HasKey(results[m].entries, accountNumber)
    THEN Get(results[m].entries, accountNumber).txns
    ELSE <<>>

RunSucceeded == pc = "done" /\ IsSome(scrapeResult) /\ Val(scrapeResult).success

LedgerAccounts == Val(scrapeResult).accounts

InLedger(accountNumber) ==
    \E i \in 1..Len(LedgerAccounts) : LedgerAccounts[i].accountNumber = accountNumber

\* the final sequence of an account
Ledger(accountNumber) ==
    IF InLedger(accountNumber)
    THEN LedgerAccounts[CHOOSE i \in 1..Len(LedgerAccounts) :
                            LedgerAccounts[i].accountNumber = accountNumber].txns
    ELSE <<>>

RECURSIVE ConcatMonths(_, _)
\* the month-local lists of an account of months 1..m, one after the other
ConcatMonths(accountNumber, m) ==
    IF m = 0 THEN <<>>
    ELSE ConcatMonths(accountNumber, m - 1) \o MonthLocal(m, accountNumber)

RECURSIVE ConcatGoodMonths(_, _)
\* as ConcatMonths, a bad month contributing nothing
ConcatGoodMonths(accountNumber, m) ==
    IF m = 0 THEN <<>>
    ELSE ConcatGoodMonths(accountNumber, m - 1)
         \o (IF MonthIsBad(m) THEN <<>> ELSE MonthLocal(m, accountNumber))

-----------------------------------------------------------------------------
(* Properties of the month fetches *)

\* C1: whatever the months' responses (each of the two either a well-formed
\* success, a failed header, malformed or absent), the aggregation that
\* follows a successful login ends with success = true, a bad month
\* contributing no transactions and every other month's transactions
\* present; no month's failure aborts it.
C1_BadMonthDegradesToEmpty ==
    (pc = "done" /\ loginState = "Success")
        => /\ \A m \in Months : monthPc[m] # "threw"
           /\ RunSucceeded
           /\ \A i \in CardIndexes :
                 Ledger(CardNumber(i)) = ConcatGoodMonths(CardNumber(i), NumMonths)

\* C2: when the dashboard-month response of a month is absent, has a
\* Header.Status other than "1" or lacks DashboardMonthBean or cardsCharges,
\* fetchAccounts gives no accounts and fetchTransactions of that month
\* returns normally with no transactions, also when the month's
\* transactions-list response is a well-formed success.
C2_BadDashboardMonthReturnsEmpty ==
    \A m \in Months :
        (MonthSettled(m) /\ DashboardIsBad(m))
            => /\ accounts[m] \in {None, Some(<<>>)}
               /\ monthPc[m] = "returned"
               /\ results[m].entries = <<>>

\* C3: when the transactions-list response of a month has a Header.Status
\* other than "1" or lacks CardsTransactionsListBean, fetchTransactions
\* returns with no account in its result; when it is a success, a resolved
\* account is in the result exactly if the response has an entry Index<i>
\* for its index, the other resolved accounts being processed all the same;
\* in neither case does fetchTransactions throw.
C3_FailedListOrMissingEntryContributesNothing ==
    \A m \in Months :
        MonthSettled(m) =>
            /\ TransactionsIsBad(m)
                  => (monthPc[m] = "returned" /\ results[m].entries = <<>>)
            /\ (TransactionsSucceeded(m) /\ IsSome(accounts[m]))
                  => /\ monthPc[m] = "returned"
                     /\ \A j \in 1..Len(Val(accounts[m])) :
                           LET account == Val(accounts[m])[j]
                           IN  IF account.index \in Val(txnResult[m]).cards
                               THEN /\ HasKey(results[m].entries, account.accountNumber)
                                    /\ Get(results[m].entries,
                                           account.accountNumber).index = account.index
                               ELSE ~HasKey(results[m].entries, account.accountNumber)

\* C3 witness: one month's list failed with both accounts resolved, and
\* another month's list succeeded with an entry for the second resolved
\* account only
C3_Witness ==
    \E m, o \in Months :
        /\ MonthSettled(m) /\ MonthSettled(o)
        /\ dashResult[m] = Some("twoCards")
        /\ Val(txnResult[m]).kind = "failedHeader"
        /\ dashResult[o] = Some("twoCards")
        /\ Val(txnResult[o]) = [kind |-> "success", cards |-> {1}]
        /\ HasKey(results[o].entries, CardNumber(1))
        /\ ~HasKey(results[o].entries, CardNumber(0))

\* C4: whatever the order in which the months' fetches complete, the final
\* sequence of each account is its month-local lists one after the other in
\* the order of the months, and an account is in the ledger exactly if some
\* month's result has it; each month's result is decided by that month's two
\* responses alone, so that the ledger is the same for every order of
\* completion.
C4_LedgerInMonthOrder ==
    RunSucceeded =>
        /\ \A i \in CardIndexes :
              /\ Ledger(CardNumber(i)) = ConcatMonths(CardNumber(i), NumMonths)
              /\ InLedger(CardNumber(i))
                    <=> \E m \in Months : HasKey(results[m].entries, CardNumber(i))
        /\ \A m \in Months :
              results[m] =
                  fetchTransactions(
                      fetchAccounts(DashboardResponse(m, Val(dashResult[m]))),
                      TransactionsResponse(m, Val(txnResult[m])), options, StartMoment)

\* C4 witness: the last month completed first, and the first and the last
\* month both have transactions of the first account
C4_Witness ==
    /\ RunSucceeded
    /\ completed[1] = NumMonths
    /\ completed[NumMonths] = 1
    /\ MonthLocal(1, CardNumber(0)) # <<>>
    /\ MonthLocal(NumMonths, CardNumber(0)) # <<>>
    /\ MonthLocal(1, CardNumber(0)) # MonthLocal(NumMonths, CardNumber(0))

-----------------------------------------------------------------------------
(* Claims C11-C13, C20: outcomes of login() and fetchData(), the ledger *)

\* login() threw instead of returning
LoginThrew == loginState = "UnknownError" /\ loginOutcome = None

\* the promise of fetchData() was rejected
FetchDataThrew == \E m \in Months : monthPc[m] = "threw"

\* C11: whatever the transport answers at the login step and at the
\* month/account step, the caller of login() and of fetchData() receives a
\* structured outcome and never a raised exception.
C11_CallerNeverSeesException == ~LoginThrew /\ ~FetchDataThrew

\* the elements of a sequence
Range(seq) == {seq[i] : i \in 1..Len(seq)}

\* C12: with combineInstallments false, the final sequence of an account
\* has at most one transaction for each installment purchase (same
\* identifier and same description), and it carries no installment
\* descriptor, also when the legs are reported in different months.
C12_OneTransactionPerInstallmentPurchase ==
    RunSucceeded /\ ~options.combineInstallments =>
        \A c \in CardIndexes :
            LET ledger == Ledger(CardNumber(c))
            IN  \A i \in 1..Len(ledger) :
                    IsInstallment(ledger[i]) =>
                        /\ ledger[i].installments = None
                        /\ \A j \in 1..Len(ledger) :
                              IsInstallment(ledger[j]) /\ SameGroup(ledger[i], ledger[j])
                                  => i = j

\* the normalized and reconciled transactions of card c in the response of
\* month m
Reconciled(m, c) ==
    fixInstallments(GroupsTxns(TxnGroups(m, c), AccountOf(CardCharge(m, c)).processedDate))

\* the transaction has an instant and the instant is not before the start
AtOrAfterStart(t) == IsSome(t.date) /\ Val(t.date) >= StartMoment

BeforeStart(t) == IsSome(t.date) /\ Val(t.date) < StartMoment

\* C13: with combineInstallments false, the final sequence of every account
\* has no transaction before the effective start instant, and every
\* normalized, reconciled transaction of a month's result that is at or
\* after it is in the final sequence.
C13_LedgerWithinWindow ==
    RunSucceeded /\ ~options.combineInstallments =>
        \A c \in CardIndexes :
            /\ \A t \in Range(Ledger(CardNumber(c))) : ~BeforeStart(t)
            /\ \A m \in Months :
                  HasKey(results[m].entries, CardNumber(c)) =>
                      \A t \in Range(Reconciled(m, c)) :
                          AtOrAfterStart(t) => t \in Range(Ledger(CardNumber(c)))

\* C13 witness: the first month's result of the first account had a
\* transaction before the start, which is not in the final sequence, and one
\* after it, which is
C13_Witness ==
    /\ RunSucceeded
    /\ ~options.combineInstallments
    /\ HasKey(results[1].entries, CardNumber(0))
    /\ \E t \in Range(Reconciled(1, 0)) :
          BeforeStart(t) /\ t \notin Range(Ledger(CardNumber(0)))
    /\ \E t \in Range(Reconciled(1, 0)) :
          AtOrAfterStart(t) /\ t \in Range(Ledger(CardNumber(0)))


\* the months before month k, in order
MonthsBefore(k) == [i \in 1..(k - 1) |-> i]

\* combinedTxns when the merge reaches the j-th key of the result of month k
MergedBefore(k, j) ==
    MergeResult(MergeAll(<<>>, results, MonthsBefore(k)), results[k],
                SubSeq(ObjectKeys(results[k].entries), 1, j - 1))

\* the sequence of an account in combinedTxns, empty if it has none
TxnsOf(combinedTxns, accountNumber) ==
    IF HasKey(combinedTxns, accountNumber) THEN Get(combinedTxns, accountNumber)
    ELSE <<>>

IsPrefix(p, seq) == Len(p) <= Len(seq) /\ SubSeq(seq, 1, Len(p)) = p

\* every step of the merge, for a month and an account of its result,
\* appends the month-local list to the account's sequence and leaves every
\* other account as it was; the final sequences are those after the last step
MergeStepsAppend ==
    /\ \A k \in Months :
          LET keys == ObjectKeys(results[k].entries)
          IN  \A j \in 1..Len(keys) :
                  LET before == MergedBefore(k, j)
                      after == MergeResult(before, results[k], <<keys[j]>>)
                  IN  /\ after = MergedBefore(k, j + 1)
                      /\ IsPrefix(TxnsOf(before, keys[j]), TxnsOf(after, keys[j]))
                      /\ TxnsOf(after, keys[j])
                            = TxnsOf(before, keys[j]) \o MonthLocal(k, keys[j])
                      /\ \A c \in CardIndexes :
                            CardNumber(c) # keys[j] =>
                                /\ HasKey(after, CardNumber(c))
                                      <=> HasKey(before, CardNumber(c))
                                /\ TxnsOf(after, CardNumber(c))
                                      = TxnsOf(before, CardNumber(c))
    /\ \A c \in CardIndexes :
          Ledger(CardNumber(c))
              = TxnsOf(MergedBefore(NumMonths,
                                    Len(ObjectKeys(results[NumMonths].entries)) + 1),
                       CardNumber(c))

\* the result of a settled month is decided by its own two responses
MonthResultIsLocal(m) ==
    results[m] = fetchTransactions(fetchAccounts(DashboardResponse(m, Val(dashResult[m]))),
                                   TransactionsResponse(m, Val(txnResult[m])),
                                   options, StartMoment)

\* a step in which the fetch of month m, once called, moves on leaves what
\* belongs to the other months as it was
MonthStepIsLocal(m) ==
    monthPc[m] # "idle" /\ monthPc'[m] # monthPc[m] =>
        \A o \in Months \ {m} :
            /\ monthPc'[o] = monthPc[o]
            /\ accounts'[o] = accounts[o]
            /\ dashResult'[o] = dashResult[o]
            /\ txnResult'[o] = txnResult[o]
            /\ results'[o] = results[o]

\* the ledger is written once, in a step that leaves every month returned
LedgerWrittenOnceAtEnd ==
    scrapeResult' # scrapeResult =>
        /\ scrapeResult = None
        /\ Val(scrapeResult').success => \A m \in Months : monthPc'[m] = "returned"

\* C20: the ledger is written only by the merge, only after every month
\* fetch has completed, and only by appending: each merge step for a month
\* and an account leaves the already merged prefix of that account's
\* sequence and every other account's sequence unchanged; a month fetch
\* neither depends on nor changes the ledger or another month's result.
C20_LedgerOnlyAppendedByMerge ==
    /\ [](RunSucceeded => MergeStepsAppend)
    /\ [](\A m \in Months : MonthSettled(m) => MonthResultIsLocal(m))
    /\ [][(\A m \in Months : MonthStepIsLocal(m)) /\ LedgerWrittenOnceAtEnd]_vars

\* C20 witness: the merge appended the second month's list of the first
\* account to its first month's, the second account being in the ledger too
C20_Witness ==
    /\ RunSucceeded
    /\ MonthLocal(1, CardNumber(0)) # <<>>
    /\ MonthLocal(2, CardNumber(0)) # <<>>
    /\ InLedger(CardNumber(1))
    /\ Ledger(CardNumber(1)) # <<>>
    /\ Len(Ledger(CardNumber(0))) > Len(MonthLocal(1, CardNumber(0)))

-----------------------------------------------------------------------------
(* fetchData: the window of months.  A moment is a date <<day, month,      *)
(* year>>; the time of day plays no part in the months chosen.             *)

InstantOf(date) == Instant(date[1], date[2], date[3])

\* moment(date).subtract(1, 'years'): the day is clamped to the month's end
SubtractYear(date) ==
    LET last == DaysInMonth(date[2], date[3] - 1)
    IN  <<IF date[1] > last THEN last ELSE date[1], date[2], date[3] - 1>>

\* moment.max(a, b)
MomentMax(a, b) == IF InstantOf(a) >= InstantOf(b) THEN a ELSE b

\* fetchData, line 316
defaultStartMoment(now) == SubtractYear(now)

\* as fetchDataStartMoment, without moment.max
fetchDataStartMomentMutNoMax(now, startDate) ==
    IF IsSome(startDate) THEN Val(startDate) ELSE defaultStartMoment(now)

\* fetchData, lines 317-318: the start handed to fetchAllTransactions
fetchDataStartMoment(now, startDate) ==
    MomentMax(defaultStartMoment(now),
              IF IsSome(startDate) THEN Val(startDate) ELSE defaultStartMoment(now))

\* the number of the calendar month of a date, and the month of a number
MonthIndex(date) == date[3] * 12 + (date[2] - 1)

MonthAt(k) == [month |-> (k % 12) + 1, year |-> k \div 12]

RECURSIVE MonthsFromTo(_, _)
MonthsFromTo(k, last) ==
    IF k > last THEN <<>> ELSE <<MonthAt(k)>> \o MonthsFromTo(k + 1, last)

\* getAllMonthMoments(startMoment, true) at the time now: the calendar months
\* from the start's to the current one
getAllMonthMoments(startMoment, now) ==
    MonthsFromTo(MonthIndex(startMoment), MonthIndex(now))

\* what fetchData hands on: the start and the months fetchAllTransactions maps
fetchDataWindow(now, startDate) ==
    LET startMoment == fetchDataStartMoment(now, startDate)
    IN  [startMoment |-> startMoment,
         allMonths |-> getAllMonthMoments(startMoment, now)]

\* the times at which fetchData is called
NowChoices ==
    {<<d, m, 2024>> : d \in {1, 15, 28}, m \in {1, 2, 7, 12}} \cup {<<29, 2, 2024>>}

\* options.startDate: omitted, or a date up to LookbackYears years back
StartDateChoices ==
    {None} \cup {Some(<<d, m, y>>) : d \in {1, 6, 28}, m \in {1, 2, 7, 12},
                                    y \in (2024 - LookbackYears)..2024}

InitWindow ==
    /\ RunNotStarted
    /\ call \in {Some([fn |-> "fetchData", now |-> n, startDate |-> d]) :
                    n \in NowChoices, d \in StartDateChoices}
    /\ ret = None

\* fetchData, lines 315-324, up to the call of fetchAllTransactions
FetchDataWindow ==
    /\ IsSome(call)
    /\ Val(call).fn = "fetchData"
    /\ ret = None
    /\ ret' = Some(fetchDataWindow(Val(call).now, Val(call).startDate))
    /\ UNCHANGED call
    /\ UNCHANGED runVars

NextWindow == FetchDataWindow

SpecWindow == InitWindow /\ [][NextWindow]_vars

\* the call of fetchData and its outcome
WindowNow == Val(call).now

WindowStartDate == Val(call).startDate

WindowMonths == Val(ret).allMonths

\* one year before now
YearBefore(date) == <<date[1], date[2], date[3] - 1>>

\* the later of one year before now and the caller's start date; the day of
\* 29 February counts as the 28th of the year before
WindowStart ==
    LET back == IF WindowNow = <<29, 2, 2024>> THEN <<28, 2, 2023>>
                ELSE YearBefore(WindowNow)
    IN  IF IsSome(WindowStartDate) /\ InstantOf(Val(WindowStartDate)) > InstantOf(back)
        THEN Val(WindowStartDate) ELSE back

\* the month is the calendar month of the date
IsMonthOf(month, date) == month.month = date[2] /\ month.year = date[3]

\* month a is not after month b
MonthNotAfter(a, b) == a.year < b.year \/ (a.year = b.year /\ a.month <= b.month)

\* month b is the calendar month that follows month a
MonthFollows(a, b) ==
    \/ a.month < 12 /\ b.month = a.month + 1 /\ b.year = a.year
    \/ a.month = 12 /\ b.month = 1 /\ b.year = a.year + 1

\* C14: fetchData fetches exactly the calendar months from the later of one
\* year before now and the caller's startDate to the current month, both
\* included and each once in order; with no startDate the first month is
\* that of one year before now, and with an older startDate no month is
\* before it.
C14_WindowOfMonths ==
    IsSome(call) /\ Val(call).fn = "fetchData" /\ IsSome(ret) =>
        LET first == [month |-> WindowStart[2], year |-> WindowStart[3]]
            current == [month |-> WindowNow[2], year |-> WindowNow[3]]
            n == Len(WindowMonths)
        IN  /\ Val(ret).startMoment = WindowStart
            /\ IF MonthNotAfter(first, current)
               THEN /\ n >= 1
                    /\ WindowMonths[1] = first
                    /\ WindowMonths[n] = current
                    /\ \A k \in 1..(n - 1) :
                          MonthFollows(WindowMonths[k], WindowMonths[k + 1])
               ELSE n = 0
            /\ ~IsSome(WindowStartDate) => IsMonthOf(WindowMonths[1], YearBefore(WindowNow))
            /\ \A k \in 1..n :
                  MonthNotAfter([month |-> WindowNow[2], year |-> WindowNow[3] - 1],
                                WindowMonths[k])

\* C14 witness: fetchData was called with a startDate more than a year back
\* and fetched the thirteen months from one year before now
C14_Witness ==
    /\ IsSome(call)
    /\ Val(call).fn = "fetchData"
    /\ IsSome(ret)
    /\ IsSome(WindowStartDate)
    /\ InstantOf(Val(WindowStartDate)) < InstantOf(YearBefore(WindowNow))
    /\ Len(WindowMonths) = 13

-----------------------------------------------------------------------------
(* convertTransactions applied to one raw record *)

\* the voucher numbers, dates and names of the records handed to
\* convertTransactions
VoucherChoices == {SentinelVoucher, <<1, 2, 3, 4, 5, 6, 7, 8, 9>>}

VoucherOutboundChoices == {SentinelVoucher, <<0, 0, 0, 0, 0, 4, 3, 2, 1>>}

MemoChoices == {None, Some(<<INSTALLMENTS_KEYWORD, " ", "2", " ", "m", "1", "2">>)}

DealSumOutboundChoices == {JsBool(FALSE), JsBool(TRUE), JsNum(0), JsNum(75), JsNum(-30)}

SumChoices == {-40, 0, 100}

SumOutboundChoices == {-60, 0, 50}

\* the raw records handed to convertTransactions
RawRecords ==
    {RawRecord(sumType, voucher, voucherOut, info, outbound, "USD", sum,
               Some(<<5, 1, 2024>>), Some(<<7, 1, 2024>>), "shop", "shopAbroad",
               payment, paymentOut) :
        sumType \in {"0", "1"}, voucher \in VoucherChoices,
        voucherOut \in VoucherOutboundChoices, info \in MemoChoices,
        outbound \in DealSumOutboundChoices, sum \in SumChoices,
        payment \in SumChoices, paymentOut \in SumOutboundChoices}

\* the billing date of the account the records are of
ConvertProcessedDate == ParseDate(Some(<<10, 2, 2024>>))

InitConvert ==
    /\ RunNotStarted
    /\ call \in {Some([fn |-> "convertTransactions", txn |-> raw]) : raw \in RawRecords}
    /\ ret = None

\* convertTransactions, lines 132-158, on the list of the one record
ConvertCall ==
    /\ IsSome(call)
    /\ Val(call).fn = "convertTransactions"
    /\ ret = None
    /\ ret' = Some(convertTransactions(<<Val(call).txn>>, ConvertProcessedDate))
    /\ UNCHANGED call
    /\ UNCHANGED runVars

NextConvert == ConvertCall

SpecConvert == InitConvert /\ [][NextConvert]_vars

\* convertTransactions has returned
Converted == IsSome(call) /\ Val(call).fn = "convertTransactions" /\ IsSome(ret)

\* the record converted and the transactions it gave
Raw == Val(call).txn

Output == Val(ret)

BothVouchersSentinel ==
    Raw.voucherNumberRatz = SentinelVoucher
    /\ Raw.voucherNumberRatzOutbound = SentinelVoucher

NonChargeableType == Raw.dealSumType = "1"

\* C15: a raw record whose deal-sum type is '1', or whose two voucher
\* fields both are '000000000', gives no transaction.
C15_ExcludedRecordsGiveNothing ==
    Converted /\ (NonChargeableType \/ BothVouchersSentinel) => Output = <<>>

\* C15 witness: records of either kind were converted to nothing
C15_Witness ==
    /\ Converted
    /\ Output = <<>>
    /\ \/ NonChargeableType /\ Raw.voucherNumberRatz # SentinelVoucher
          /\ Raw.voucherNumberRatzOutbound # SentinelVoucher
       \/ ~NonChargeableType /\ BothVouchersSentinel

\* C16: a raw record with a chargeable deal-sum type and at most one of the
\* two voucher fields equal to '000000000' gives exactly one transaction.
C16_OnlyExcludedRecordsDropped ==
    Converted /\ ~NonChargeableType /\ ~BothVouchersSentinel => Len(Output) = 1

\* the one transaction the record gave
Txn == Output[1]

\* the record is outbound: its dealSumOutbound is truthy
IsOutbound == Raw.dealSumOutbound # JsBool(FALSE) /\ Raw.dealSumOutbound # JsNum(0)

\* the raw deal sum and payment sum of the record's direction; the outbound
\* deal sum is the number dealSumOutbound stands for
SelectedDealSum == IF IsOutbound THEN Raw.dealSumOutbound.n ELSE Raw.dealSum

SelectedPaymentSum == IF IsOutbound THEN Raw.paymentSumOutbound ELSE Raw.paymentSum

Sign(x) == IF x > 0 THEN 1 ELSE IF x < 0 THEN -1 ELSE 0

\* C17: for every transaction produced, originalAmount and chargedAmount
\* have the same sign, and both are at most 0 whenever the raw deal sum is
\* positive, domestic or outbound.
C17_AmountsSameSign ==
    Converted /\ Output # <<>> =>
        /\ Sign(Txn.originalAmount) = Sign(Txn.chargedAmount)
        /\ SelectedDealSum > 0 => Txn.originalAmount <= 0 /\ Txn.chargedAmount <= 0

\* C17, amended: for every transaction produced, originalAmount and
\* chargedAmount have the same sign whenever the raw deal sum and the raw
\* payment sum of the record's direction have the same sign, and both are
\* at most 0 whenever both these raw sums are positive.
C17_AmountsSameSignAsRawSums ==
    Converted /\ Output # <<>> =>
        /\ Sign(SelectedDealSum) = Sign(SelectedPaymentSum)
              => Sign(Txn.originalAmount) = Sign(Txn.chargedAmount)
        /\ SelectedDealSum > 0 /\ SelectedPaymentSum > 0
              => Txn.originalAmount <= 0 /\ Txn.chargedAmount <= 0

\* C17 witness: an outbound record with both raw sums positive was converted
C17_Witness ==
    /\ Converted
    /\ Output # <<>>
    /\ IsOutbound
    /\ SelectedDealSum > 0
    /\ SelectedPaymentSum > 0
    /\ Txn.originalAmount < 0
    /\ Txn.chargedAmount < 0

\* C18: the transaction of an outbound record has the outbound voucher
\* number, purchase date, supplier name, payment sum and deal sum, the sums
\* negated; that of any other record has the domestic ones; originalAmount is
\* always the negation of the deal sum of the record's direction.
C18_FieldsByDirection ==
    Converted /\ Output # <<>> =>
        /\ Len(Output) = 1
        /\ Txn.originalAmount = -SelectedDealSum
        /\ IF IsOutbound
           THEN /\ Txn.identifier = 4321
                /\ Txn.date = Some(Instant(7, 1, 2024))
                /\ Txn.description = "shopAbroad"
                /\ Txn.chargedAmount = -Raw.paymentSumOutbound
                /\ Txn.originalAmount = -Raw.dealSumOutbound.n
           ELSE /\ Txn.identifier = 123456789
                /\ Txn.date = Some(Instant(5, 1, 2024))
                /\ Txn.description = "shop"
                /\ Txn.chargedAmount = -Raw.paymentSum
                /\ Txn.originalAmount = -Raw.dealSum

\* C18 witness: an outbound record whose dealSumOutbound differs from its
\* dealSum was converted
C18_Witness ==
    /\ Converted
    /\ Len(Output) = 1
    /\ Raw.dealSumOutbound = JsNum(75)
    /\ Raw.dealSum = 100
    /\ Raw.paymentSumOutbound = 50
    /\ Txn.originalAmount = -75

-----------------------------------------------------------------------------
(* getInstallmentsInfo and getTransactionType applied to one record *)

\* the symbols of a memo
MemoSymbols == {INSTALLMENTS_KEYWORD, "0", "1", "2", " "}

\* moreInfo: absent, or a memo of at most MaxMemoLen symbols
Memos ==
    {None} \cup {Some(memo) : memo \in UNION {[1..n -> MemoSymbols] : n \in 0..MaxMemoLen}}

\* a domestic record with the memo
RawWithMemo(info) ==
    RawRecord("0", <<1, 2, 3, 4, 5, 6, 7, 8, 9>>, <<>>, info, JsBool(FALSE), "USD", 100, Some(<<5, 1, 2024>>), None, "shop", "", 100, 0)

InitMemo ==
    /\ RunNotStarted
    /\ call \in {Some([fn |-> "getInstallmentsInfo", txn |-> RawWithMemo(info)]) :
                    info \in Memos}
    /\ ret = None

\* getInstallmentsInfo, lines 113-126, and the record's conversion, which
\* calls getTransactionType, lines 128-130
InstallmentsCall ==
    /\ IsSome(call)
    /\ Val(call).fn = "getInstallmentsInfo"
    /\ ret = None
    /\ ret' = Some([info |-> getInstallmentsInfo(Val(call).txn),
                    txns |-> convertTransactions(<<Val(call).txn>>, ConvertProcessedDate)])
    /\ UNCHANGED call
    /\ UNCHANGED runVars

NextMemo == InstallmentsCall

SpecMemo == InitMemo /\ [][NextMemo]_vars

\* getInstallmentsInfo has returned
InfoReturned == IsSome(call) /\ Val(call).fn = "getInstallmentsInfo" /\ IsSome(ret)

\* the memo of the record, the empty memo for an absent one
Memo == IF IsSome(Val(call).txn.moreInfo) THEN Val(Val(call).txn.moreInfo) ELSE <<>>

MemoPresent == IsSome(Val(call).txn.moreInfo) /\ Memo # <<>>

HasMarker == \E i \in 1..Len(Memo) : Memo[i] = INSTALLMENTS_KEYWORD

IsDigitAt(i) == Memo[i] \in Digits

\* the positions at which an integer begins in the memo
IntegerStarts == {i \in 1..Len(Memo) : IsDigitAt(i) /\ (i = 1 \/ ~IsDigitAt(i - 1))}

\* the position at which the integer that begins at s ends
IntegerEnd(s) ==
    CHOOSE e \in s..Len(Memo) :
        /\ \A k \in s..e : IsDigitAt(k)
        /\ e = Len(Memo) \/ ~IsDigitAt(e + 1)

RECURSIVE DecimalValue(_, _)
\* the number the digits at the positions s..e of the memo spell
DecimalValue(s, e) ==
    IF e < s THEN 0 ELSE 10 * DecimalValue(s, e - 1) + DigitValue(Memo[e])

IntegerAt(s) == DecimalValue(s, IntegerEnd(s))

FirstStart == CHOOSE i \in IntegerStarts : \A j \in IntegerStarts : i <= j

SecondStart ==
    CHOOSE i \in IntegerStarts \ {FirstStart} :
        \A j \in IntegerStarts \ {FirstStart} : i <= j

\* C19: getInstallmentsInfo returns a descriptor exactly when the memo is
\* present, contains the installments keyword and holds at least two
\* integers, and then number and total are the first two integers of the
\* memo; otherwise it returns nothing and the transaction is Normal.  The
\* transaction is of type Installments exactly if it carries a descriptor.
C19_InstallmentsFromMemo ==
    InfoReturned =>
        LET info == Val(ret).info
            txn == Val(ret).txns[1]
        IN  /\ IsSome(info)
                  <=> MemoPresent /\ HasMarker /\ Cardinality(IntegerStarts) >= 2
            /\ IsSome(info) =>
                  /\ Val(info).number = IntegerAt(FirstStart)
                  /\ Val(info).total = IntegerAt(SecondStart)
            /\ Len(Val(ret).txns) = 1
            /\ txn.installments = info
            /\ ~IsSome(info) => txn.type = Normal
            /\ txn.type = Installments <=> IsSome(txn.installments)

\* C19 witness: a memo with the keyword, a first integer of two digits and a
\* second integer gave the descriptor of these two
C19_Witness ==
    /\ InfoReturned
    /\ Memo = <<INSTALLMENTS_KEYWORD, "1", "0", " ", "2">>
       \/ Memo = <<"1", "0", INSTALLMENTS_KEYWORD, "2">>
    /\ Val(ret).info = Some([number |-> 10, total |-> 2])
    /\ Val(ret).txns[1].type = Installments

=============================================================================
